---- MODULE Spec2Model ----
(***************************************************************************)
(* Model of realTime/setupSocketIO.js: the socket.io connection handler,   *)
(* its disconnect handler and the activePersp:<name> counters kept in the  *)
(* shared redis instance.  Several server processes run the same handler   *)
(* against one redis; every redis command and every database lookup is an  *)
(* asynchronous step, so handlers of different sockets interleave between  *)
(* their commands.  setupNamespace, which init calls after installing the  *)
(* connection handler, and getUserFromSession are modelled step by step as *)
(* well; a process restarted over counters that outlived it, a store whose *)
(* commands fail and the requireAccessToken toggle switched off each have  *)
(* a specification of their own.                                           *)
(***************************************************************************)
EXTENDS Integers, FiniteSets, Sequences, TLC

\* ---- bounds ----
MaxSockets == 2
MaxNameLen == 3
MaxJobs == 3
MaxBatch == 3
MaxRangeLen == 3
MaxSamples == 3

\* ---- program constants ----
ONE == 1

Sockets == 1..MaxSockets
Procs == {"web1", "web2"}
Topics == {"ops"}
\* what `${activePerspPrefix}${perspName}` ends in when the handshake has no
\* query parameter p: the key is activePersp:undefined
NoTopic == "undefined"
\* the names behind the activePersp: prefix
Keys == Topics \cup {NoTopic}

\* handshakes a client can present, one per admission outcome
Handshakes == {"ok", "noCookie", "noSid", "badSession", "badIp"}
\* handshakes with a well-formed cookie, one per reply of the session store:
\* a named user, no record, a record without passport.user, a user without
\* a name, and an error of the store
SessionHandshakes == {"ok", "badSession", "noUser", "noName", "storeError"}
\* handshakes presented while the session check is switched off
AnonHandshakes == {"ok", "badSession", "noCookie"}

\* positions of the connect promise chain and of the disconnect handler
CActive == {"auth", "get", "find", "incr"}
DActive == {"get", "del", "find", "decr"}

\* a redis reply: null, or the stored integer (as a decimal string in JS)
Nil == [nil |-> TRUE, val |-> 0]
Val(n) == [nil |-> FALSE, val |-> n]

VARIABLES
  requireAccessToken, \* feature toggle, fixed for a run
  persp,              \* perspective names present in the database
  redis,              \* redis[t]: reply of GET activePersp:t
  nsps,               \* nsps[p]: topics with a namespace in process p (io.nsps)
  proc, topic, hs,    \* per socket: process, handshake.query.p, handshake kind
  connected,          \* per socket: the transport is still open
  cpc,                \* per socket: position of the connect promise chain
  numOfClients,       \* what the chain's getAsync resolved to: "unread",
                      \* "null" (no key) or "number"
  dpc,                \* per socket: position of the disconnect handler
  created,            \* the connect chain has called initializeNamespace
  incrRet,            \* what the socket's incrAsync resolved to (Nil: not yet)
  early,              \* the disconnect handler started before the socket's INCR
  absentAt,           \* the topic was not in the database when the socket arrived
  sessionRead,        \* per socket: redisStore.get was called for its sid
  user,               \* per socket: what getUserFromSession resolved to
  setup,              \* setup[p]: progress of setupNamespace in process p
  stored,             \* the counters as they were when the processes started
  keyRt,              \* a perspective name on its way into a key and back
  cleanup,            \* a run of jobCleanup.execute
  range,              \* a call of aspectUtils.validateStatusRange
  asp,                \* a call of aspectUtils.removeAspectRelatedSamples
  logEnabled,         \* feature toggle enableRealtimeActivityLogs, fixed for a run
  logrec,             \* per socket: the record stored under socket.id
  lpc                 \* per socket: position of printRealtimeLogs

vars == <<requireAccessToken, persp, redis, nsps, proc, topic, hs, connected,
          cpc, numOfClients, dpc, created, incrRet, early, absentAt,
          sessionRead, user, setup, stored, keyRt, cleanup, range, asp,
          logEnabled, logrec, lpc>>

\* ---- JavaScript coercions used by the handlers ----
\* !numOfClients : null is falsy, every non-empty string (also "0") is truthy
Falsy(r) == r.nil
\* numOfConn < ONE, the comparison off by one
LeOne_strict(r) == IF r.nil THEN 0 < ONE ELSE r.val < ONE
\* numOfConn <= ONE : null converts to 0, a numeric string to its number
LeOne(r) == IF r.nil THEN 0 <= ONE ELSE r.val <= ONE

\* ---- redis commands on one key ----
Get(t) == redis[t]
\* a SET to 1 on a key that looked absent instead of the atomic INCR
Incr_set(r) == Val(1)
Incr(r) == IF r.nil THEN Val(1) ELSE Val(r.val + 1)
Decr(r) == IF r.nil THEN Val(0 - 1) ELSE Val(r.val - 1)
Del(r) == Nil

\* ---- rtUtils namespace operations (realTime/utils.js) ----
initializeNamespace(ns, t) == ns \cup {t}
deleteNamespace(ns, t) == ns \ {t}

\* the disconnect handler is registered once the admission checks passed
Registered(s) == cpc[s] \in {"get", "find", "incr", "done", "notFound"}
\* the socket's INCR has been applied
IncrApplied(s) == ~incrRet[s].nil
InFlight(s) == cpc[s] \in CActive \/ dpc[s] \in DActive

\* setupNamespace over an empty store: keysAsync lists nothing, the promise
\* is resolved and nothing else happens
SetupDone == [pc |-> "resolved", gets |-> {}, read |-> [k \in Keys |-> Nil],
              finds |-> {}, looked |-> {}, inited |-> {}, lost |-> {}]
\* setupNamespace has been called and its keysAsync is pending
SetupStart == [SetupDone EXCEPT !.pc = "keys"]

\* no user resolved yet
Unresolved == "(none)"

\* no socket has arrived, no process has a namespace
InitSockets ==
  /\ nsps = [p \in Procs |-> {}]
  /\ proc = [s \in Sockets |-> "web1"]
  /\ topic = [s \in Sockets |-> "ops"]
  /\ hs = [s \in Sockets |-> "ok"]
  /\ connected = [s \in Sockets |-> FALSE]
  /\ cpc = [s \in Sockets |-> "idle"]
  /\ dpc = [s \in Sockets |-> "none"]
  /\ created = [s \in Sockets |-> FALSE]
  /\ incrRet = [s \in Sockets |-> Nil]
  /\ numOfClients = [s \in Sockets |-> "unread"]
  /\ early = [s \in Sockets |-> FALSE]
  /\ absentAt = [s \in Sockets |-> FALSE]
  /\ sessionRead = [s \in Sockets |-> FALSE]
  /\ user = [s \in Sockets |-> Unresolved]
  /\ logrec = [s \in Sockets |-> "none"]
  /\ lpc = [s \in Sockets |-> "none"]

\* nothing but the socket handlers is running
KeyRtOff == [pc |-> "off", name |-> <<>>, key |-> <<>>, perspName |-> <<>>]
CleanupOff == [pc |-> "off"]
RangeOff == [pc |-> "off"]
AspOff == [pc |-> "off"]
HelpersOff ==
  /\ keyRt = KeyRtOff
  /\ cleanup = CleanupOff
  /\ range = RangeOff
  /\ asp = AspOff

\* the processes start over an empty counter store, with the toggle on
Init ==
  /\ requireAccessToken = TRUE
  /\ persp = Topics
  /\ redis = [t \in Keys |-> Nil]
  /\ stored = redis
  /\ setup = [p \in Procs |-> SetupDone]
  /\ InitSockets
  /\ logEnabled = FALSE
  /\ HelpersOff

\* only the presence of the cookie header is tested, not SID_REX
CookieOk_noRex(h) == h # "noCookie"
\* the handshake passes the checks made before the session is loaded
CookieOk(h) == h \notin {"noCookie", "noSid"}

\* the session store is read whatever the toggle says
ReadsStore_always == TRUE
\* featureToggles.isFeatureEnabled('requireAccessToken')
ReadsStore == requireAccessToken

\* what redisStore.get(sid) calls back with for handshake h.  sessionData is
\* kept as the depth to which sessionData.passport.user exists (0: null) and
\* the value of user.name ("" when it is undefined or empty)
StoreErr(h) == h = "storeError"
SessionData(h) ==
  CASE h = "badSession" -> [depth |-> 0, name |-> ""]
    [] h = "noUser"     -> [depth |-> 2, name |-> ""]
    [] h = "noName"     -> [depth |-> 3, name |-> ""]
    [] OTHER            -> [depth |-> 3, name |-> "alice"]

\* the test stops at passport.user and does not look at the name
HasUserName_noName(d) == d.depth >= 3
\* sessionData && sessionData.passport && sessionData.passport.user &&
\* sessionData.passport.user.name
HasUserName(d) == d.depth >= 3 /\ d.name # ""

\* the promise of getUserFromSession for handshake h: whether it resolves,
\* with which user name, and whether the session store was read for it
getUserFromSession(h) ==
  IF ReadsStore
  THEN IF StoreErr(h) THEN [resolved |-> FALSE, user |-> Unresolved, read |-> TRUE]
       ELSE IF HasUserName(SessionData(h))
            THEN [resolved |-> TRUE, user |-> SessionData(h).name, read |-> TRUE]
            ELSE [resolved |-> FALSE, user |-> Unresolved, read |-> TRUE]
  ELSE [resolved |-> TRUE, user |-> "", read |-> FALSE]

\* getUserFromSession resolves
SessionOk(h) == getUserFromSession(h).resolved
\* the whitelist check left out
IpOk_skipped(h) == TRUE
\* rtUtils.isIpWhitelisted does not throw
IpOk(h) == h # "badIp"

\* position of the connect chain after getUserFromSession has resolved or
\* rejected for handshake h: the .then callback up to getAsync, or the catch
AfterSession(h) == IF SessionOk(h) /\ IpOk(h) THEN "get" ELSE "rejected"

\* a 'connection' event: the synchronous part of the handler
Connect(s, p, t, h) ==
  /\ cpc[s] = "idle"
  /\ \A u \in 1..(s - 1) : cpc[u] # "idle"  \* socket ids are given in arrival order
  /\ s = 1 => p = "web1"                     \* and the first process is called web1
  /\ proc' = [proc EXCEPT ![s] = p]
  /\ topic' = [topic EXCEPT ![s] = t]
  /\ hs' = [hs EXCEPT ![s] = h]
  /\ cpc' = [cpc EXCEPT ![s] =
               IF ~CookieOk(h) THEN "rejected"
               ELSE IF getUserFromSession(h).read THEN "auth"
               ELSE AfterSession(h)]
  /\ connected' = [connected EXCEPT ![s] = cpc'[s] # "rejected"]
  /\ absentAt' = [absentAt EXCEPT ![s] = t \notin persp]
  /\ sessionRead' = [sessionRead EXCEPT ![s] = CookieOk(h) /\ getUserFromSession(h).read]
  /\ user' = [user EXCEPT ![s] =
                IF CookieOk(h) /\ ~getUserFromSession(h).read
                THEN getUserFromSession(h).user ELSE @]
  /\ UNCHANGED <<numOfClients, requireAccessToken, persp, redis, nsps, dpc, created, incrRet,
                 early, setup, stored, keyRt, cleanup, range, asp, logEnabled>>
  \* if (logEnabled) redisClient.set(socket.id, JSON.stringify(toLog))
  /\ logrec' = [logrec EXCEPT ![s] = IF logEnabled /\ cpc'[s] = "get" THEN "set" ELSE @]
  /\ UNCHANGED lpc

\* redisStore.get(sid) has called back
ConnectAuth(s) ==
  /\ cpc[s] = "auth"
  /\ cpc' = [cpc EXCEPT ![s] = AfterSession(hs[s])]
  /\ connected' = [connected EXCEPT ![s] = connected[s] /\ cpc'[s] # "rejected"]
  /\ user' = [user EXCEPT ![s] = getUserFromSession(hs[s]).user]
  /\ UNCHANGED <<numOfClients, requireAccessToken, persp, redis, nsps, proc, topic, hs, dpc,
                 created, incrRet, early, absentAt, sessionRead, setup, stored, keyRt, cleanup, range, asp, logEnabled>>
  \* if (logEnabled) redisClient.set(socket.id, JSON.stringify(toLog))
  /\ logrec' = [logrec EXCEPT ![s] = IF logEnabled /\ cpc'[s] = "get" THEN "set" ELSE @]
  /\ UNCHANGED lpc

\* the chain increments at once, whatever it read, and never creates
ConnectGet_onlyIncr(s) ==
  /\ cpc[s] = "get"
  /\ numOfClients' = [numOfClients EXCEPT ![s] =
                        IF Falsy(Get(topic[s])) THEN "null" ELSE "number"]
  /\ cpc' = [cpc EXCEPT ![s] = "incr"]
  /\ UNCHANGED <<requireAccessToken, persp, redis, nsps, proc, topic, hs,
                 connected, dpc, created, incrRet, early, absentAt>>
  /\ UNCHANGED <<sessionRead, user, setup, stored, keyRt, cleanup, range, asp, logEnabled>>
  /\ UNCHANGED <<logrec, lpc>>

\* redisClient.getAsync(perspKey) of the connect chain has resolved
ConnectGet(s) ==
  /\ cpc[s] = "get"
  /\ numOfClients' = [numOfClients EXCEPT ![s] =
                        IF Falsy(Get(topic[s])) THEN "null" ELSE "number"]
  /\ cpc' = [cpc EXCEPT ![s] = IF Falsy(Get(topic[s])) THEN "find" ELSE "incr"]
  /\ UNCHANGED <<requireAccessToken, persp, redis, nsps, proc, topic, hs,
                 connected, dpc, created, incrRet, early, absentAt>>
  /\ UNCHANGED <<sessionRead, user, setup, stored, keyRt, cleanup, range, asp, logEnabled>>
  /\ UNCHANGED <<logrec, lpc>>

\* perspective.findOne of the connect chain has resolved
ConnectFind(s) ==
  /\ cpc[s] = "find"
  /\ IF topic[s] \in persp
     THEN /\ nsps' = [nsps EXCEPT ![proc[s]] = initializeNamespace(@, topic[s])]
          /\ created' = [created EXCEPT ![s] = TRUE]
          /\ cpc' = [cpc EXCEPT ![s] = "incr"]
          /\ UNCHANGED <<connected, dpc, early>>
     ELSE \* ResourceNotFoundError -> catch -> socket.disconnect()
          /\ cpc' = [cpc EXCEPT ![s] = "notFound"]
          /\ connected' = [connected EXCEPT ![s] = FALSE]
          /\ dpc' = [dpc EXCEPT ![s] = IF connected[s] THEN "get" ELSE @]
          /\ early' = [early EXCEPT ![s] = @ \/ connected[s]]
          /\ UNCHANGED <<nsps, created>>
  /\ UNCHANGED <<numOfClients, requireAccessToken, persp, redis, proc, topic, hs, incrRet,
                 absentAt>>
  /\ UNCHANGED <<sessionRead, user, setup, stored, keyRt, cleanup, range, asp, logEnabled>>
  \* the disconnect handler run by socket.disconnect() prints the log too
  /\ lpc' = [lpc EXCEPT ![s] =
               IF logEnabled /\ topic[s] \notin persp /\ connected[s] THEN "get" ELSE @]
  /\ UNCHANGED logrec

\* redisClient.incrAsync(perspKey) has resolved
ConnectIncr(s) ==
  /\ cpc[s] = "incr"
  /\ redis' = [redis EXCEPT ![topic[s]] = Incr(@)]
  /\ incrRet' = [incrRet EXCEPT ![s] = redis'[topic[s]]]
  /\ cpc' = [cpc EXCEPT ![s] = "done"]
  /\ UNCHANGED <<numOfClients, requireAccessToken, persp, nsps, proc, topic, hs, connected,
                 dpc, created, early, absentAt>>
  /\ UNCHANGED <<sessionRead, user, setup, stored, keyRt, cleanup, range, asp, logEnabled>>
  /\ UNCHANGED <<logrec, lpc>>

\* the client closes the transport: 'disconnect' is emitted
ClientDisconnect(s) ==
  /\ connected[s]
  /\ connected' = [connected EXCEPT ![s] = FALSE]
  /\ dpc' = [dpc EXCEPT ![s] = IF Registered(s) THEN "get" ELSE @]
  /\ early' = [early EXCEPT ![s] = Registered(s) /\ ~IncrApplied(s)]
  /\ UNCHANGED <<numOfClients, requireAccessToken, persp, redis, nsps, proc, topic, hs, cpc,
                 created, incrRet, absentAt>>
  /\ UNCHANGED <<sessionRead, user, setup, stored, keyRt, cleanup, range, asp, logEnabled>>
  \* if (logEnabled) printRealtimeLogs(socket)
  /\ lpc' = [lpc EXCEPT ![s] = IF logEnabled /\ Registered(s) THEN "get" ELSE @]
  /\ UNCHANGED logrec

\* redisClient.getAsync(perspKey) of the disconnect handler has resolved
DiscGet(s) ==
  /\ dpc[s] = "get"
  /\ dpc' = [dpc EXCEPT ![s] = IF LeOne(Get(topic[s])) THEN "del" ELSE "decr"]
  /\ UNCHANGED <<numOfClients, requireAccessToken, persp, redis, nsps, proc, topic, hs,
                 connected, cpc, created, incrRet, early, absentAt>>
  /\ UNCHANGED <<sessionRead, user, setup, stored, keyRt, cleanup, range, asp, logEnabled>>
  /\ UNCHANGED <<logrec, lpc>>

\* redisClient.delAsync(perspKey) has resolved
DiscDel(s) ==
  /\ dpc[s] = "del"
  /\ redis' = [redis EXCEPT ![topic[s]] = Del(@)]
  /\ dpc' = [dpc EXCEPT ![s] = "find"]
  /\ UNCHANGED <<numOfClients, requireAccessToken, persp, nsps, proc, topic, hs, connected,
                 cpc, created, incrRet, early, absentAt>>
  /\ UNCHANGED <<sessionRead, user, setup, stored, keyRt, cleanup, range, asp, logEnabled>>
  /\ UNCHANGED <<logrec, lpc>>

\* the namespace is deleted whether or not the perspective was found
DiscFind_always(s) ==
  /\ dpc[s] = "find"
  /\ nsps' = [nsps EXCEPT ![proc[s]] = deleteNamespace(@, topic[s])]
  /\ dpc' = [dpc EXCEPT ![s] = IF topic[s] \in persp THEN "retired" ELSE "failed"]
  /\ UNCHANGED <<numOfClients, requireAccessToken, persp, redis, proc, topic, hs, connected,
                 cpc, created, incrRet, early, absentAt>>
  /\ UNCHANGED <<sessionRead, user, setup, stored, keyRt, cleanup, range, asp, logEnabled>>
  /\ UNCHANGED <<logrec, lpc>>

\* perspective.findOne of the disconnect handler has resolved
DiscFind(s) ==
  /\ dpc[s] = "find"
  /\ IF topic[s] \in persp
     THEN /\ nsps' = [nsps EXCEPT ![proc[s]] = deleteNamespace(@, topic[s])]
          /\ dpc' = [dpc EXCEPT ![s] = "retired"]
     ELSE \* ResourceNotFoundError, nobody catches it
          /\ dpc' = [dpc EXCEPT ![s] = "failed"]
          /\ UNCHANGED nsps
  /\ UNCHANGED <<numOfClients, requireAccessToken, persp, redis, proc, topic, hs, connected,
                 cpc, created, incrRet, early, absentAt>>
  /\ UNCHANGED <<sessionRead, user, setup, stored, keyRt, cleanup, range, asp, logEnabled>>
  /\ UNCHANGED <<logrec, lpc>>

\* redisClient.decrAsync(perspKey) has resolved
DiscDecr(s) ==
  /\ dpc[s] = "decr"
  /\ redis' = [redis EXCEPT ![topic[s]] = Decr(@)]
  /\ dpc' = [dpc EXCEPT ![s] = "decremented"]
  /\ UNCHANGED <<numOfClients, requireAccessToken, persp, nsps, proc, topic, hs, connected,
                 cpc, created, incrRet, early, absentAt>>
  /\ UNCHANGED <<sessionRead, user, setup, stored, keyRt, cleanup, range, asp, logEnabled>>
  /\ UNCHANGED <<logrec, lpc>>

\* getAsync, delAsync or decrAsync of the disconnect handler has rejected:
\* the chain has no catch and nothing runs after it
DiscStoreError(s) ==
  /\ dpc[s] \in {"get", "del", "decr"}
  /\ dpc' = [dpc EXCEPT ![s] = "storeError"]
  /\ UNCHANGED <<numOfClients, requireAccessToken, persp, redis, nsps, proc, topic, hs,
                 connected, cpc, created, incrRet, early, absentAt>>
  /\ UNCHANGED <<sessionRead, user, setup, stored, keyRt, cleanup, range, asp, logEnabled>>
  /\ UNCHANGED <<logrec, lpc>>

\* the perspective is deleted from the database through the API
DeleteTopic(t) ==
  /\ t \in persp
  /\ persp' = persp \ {t}
  /\ UNCHANGED <<requireAccessToken, redis, nsps, proc, topic, hs, connected,
                 cpc, numOfClients, dpc, created, incrRet, early, absentAt>>
  /\ UNCHANGED <<sessionRead, user, setup, stored, keyRt, cleanup, range, asp, logEnabled>>
  /\ UNCHANGED <<logrec, lpc>>

\* ---- printRealtimeLogs(socket) ----
\* redisClient.get(socket.id) has called back without error: the log line is
\* printed when the record is there and redisClient.del(socket.id) is issued
LogGet(s) ==
  /\ lpc[s] = "get"
  /\ lpc' = [lpc EXCEPT ![s] = "del"]
  /\ UNCHANGED <<requireAccessToken, persp, redis, nsps, proc, topic, hs, connected,
                 cpc, numOfClients, dpc, created, incrRet, early, absentAt,
                 sessionRead, user, setup, stored, keyRt, cleanup, range, asp,
                 logEnabled, logrec>>

\* redisClient.del(socket.id) has called back without error
LogDel(s) ==
  /\ lpc[s] = "del"
  /\ lpc' = [lpc EXCEPT ![s] = "done"]
  /\ logrec' = [logrec EXCEPT ![s] = IF @ = "set" THEN "deleted" ELSE @]
  /\ UNCHANGED <<requireAccessToken, persp, redis, nsps, proc, topic, hs, connected,
                 cpc, numOfClients, dpc, created, incrRet, early, absentAt,
                 sessionRead, user, setup, stored, keyRt, cleanup, range, asp,
                 logEnabled>>

\* the get or the del has called back with an error, which is printed
LogStoreError(s) ==
  /\ lpc[s] \in {"get", "del"}
  /\ lpc' = [lpc EXCEPT ![s] = "storeError"]
  /\ UNCHANGED <<requireAccessToken, persp, redis, nsps, proc, topic, hs, connected,
                 cpc, numOfClients, dpc, created, incrRet, early, absentAt,
                 sessionRead, user, setup, stored, keyRt, cleanup, range, asp,
                 logEnabled, logrec>>

\* ---- setupNamespace in process p ----
\* redisClient.keysAsync('activePersp:*') has resolved: one getAsync per key
\* is issued; without keys Promise.all([]) resolves the promise at once
SetupKeys(p) ==
  /\ setup[p].pc = "keys"
  /\ LET keys == {k \in Keys : ~redis[k].nil}
     IN setup' = [setup EXCEPT ![p].gets = keys,
                               ![p].pc = IF keys = {} THEN "resolved" ELSE "gets"]
  /\ UNCHANGED <<requireAccessToken, persp, redis, nsps, proc, topic, hs, connected,
                 cpc, numOfClients, dpc, created, incrRet, early, absentAt,
                 sessionRead, user, stored, keyRt, cleanup, range, asp, logEnabled>>
  /\ UNCHANGED <<logrec, lpc>>

\* redisClient.getAsync(key) has resolved: the value is parsed and not
\* looked at, the key has a name behind the prefix, findOne is issued and the
\* callback returns without waiting for it; once the last getAsync callback
\* has returned Promise.all resolves and the promise resolves to io
SetupGet(p, k) ==
  /\ k \in setup[p].gets
  /\ setup' = [setup EXCEPT ![p].gets = @ \ {k},
                            ![p].read[k] = Get(k),
                            ![p].finds = @ \cup {k},
                            ![p].looked = @ \cup {k},
                            ![p].pc = IF setup[p].gets = {k} THEN "resolved" ELSE @]
  /\ UNCHANGED <<requireAccessToken, persp, redis, nsps, proc, topic, hs, connected,
                 cpc, numOfClients, dpc, created, incrRet, early, absentAt,
                 sessionRead, user, stored, keyRt, cleanup, range, asp, logEnabled>>
  /\ UNCHANGED <<logrec, lpc>>

\* a perspective that is not found has its stale key removed
SetupFind_cleans(p, k) ==
  /\ k \in setup[p].finds
  /\ IF k \in persp
     THEN /\ nsps' = [nsps EXCEPT ![p] = initializeNamespace(@, k)]
          /\ setup' = [setup EXCEPT ![p].finds = @ \ {k}, ![p].inited = @ \cup {k}]
          /\ UNCHANGED redis
     ELSE /\ setup' = [setup EXCEPT ![p].finds = @ \ {k}, ![p].lost = @ \cup {k}]
          /\ redis' = [redis EXCEPT ![k] = Del(@)]
          /\ UNCHANGED nsps
  /\ UNCHANGED <<requireAccessToken, persp, proc, topic, hs, connected,
                 cpc, numOfClients, dpc, created, incrRet, early, absentAt,
                 sessionRead, user, stored, keyRt, cleanup, range, asp, logEnabled>>
  /\ UNCHANGED <<logrec, lpc>>

\* the counter of a recreated namespace is written back as it was read
SetupFind_rewrite(p, k) ==
  /\ k \in setup[p].finds
  /\ IF k \in persp
     THEN /\ nsps' = [nsps EXCEPT ![p] = initializeNamespace(@, k)]
          /\ setup' = [setup EXCEPT ![p].finds = @ \ {k}, ![p].inited = @ \cup {k}]
          /\ redis' = [redis EXCEPT ![k] = setup[p].read[k]]
     ELSE /\ setup' = [setup EXCEPT ![p].finds = @ \ {k}, ![p].lost = @ \cup {k}]
          /\ UNCHANGED <<nsps, redis>>
  /\ UNCHANGED <<requireAccessToken, persp, proc, topic, hs, connected,
                 cpc, numOfClients, dpc, created, incrRet, early, absentAt,
                 sessionRead, user, stored, keyRt, cleanup, range, asp, logEnabled>>
  /\ UNCHANGED <<logrec, lpc>>

\* perspective.findOne of setupNamespace has resolved: the namespace is
\* initialized, or ResourceNotFoundError is thrown in a promise that nobody
\* holds
SetupFind(p, k) ==
  /\ k \in setup[p].finds
  /\ IF k \in persp
     THEN /\ nsps' = [nsps EXCEPT ![p] = initializeNamespace(@, k)]
          /\ setup' = [setup EXCEPT ![p].finds = @ \ {k}, ![p].inited = @ \cup {k}]
     ELSE /\ setup' = [setup EXCEPT ![p].finds = @ \ {k}, ![p].lost = @ \cup {k}]
          /\ UNCHANGED nsps
  /\ UNCHANGED <<requireAccessToken, persp, redis, proc, topic, hs, connected,
                 cpc, numOfClients, dpc, created, incrRet, early, absentAt,
                 sessionRead, user, stored, keyRt, cleanup, range, asp, logEnabled>>
  /\ UNCHANGED <<logrec, lpc>>

\* the steps of the first n sockets after getUserFromSession: the rest of the
\* connect chain, the disconnect event and the disconnect handler
ChainSteps(n) ==
  \/ \E s \in 1..n : ConnectGet(s)
  \/ \E s \in 1..n : ConnectFind(s)
  \/ \E s \in 1..n : ConnectIncr(s)
  \/ \E s \in 1..n : ClientDisconnect(s)
  \/ \E s \in 1..n : DiscGet(s)
  \/ \E s \in 1..n : DiscDel(s)
  \/ \E s \in 1..n : DiscFind(s)
  \/ \E s \in 1..n : DiscDecr(s)

\* every step the first n sockets and their clients can take, the sockets
\* connecting to the processes of P with handshakes of H and a query
\* parameter p of T
SocketSteps(n, P, H, T) ==
  \/ \E s \in 1..n, p \in P, t \in T, h \in H : Connect(s, p, t, h)
  \/ \E s \in 1..n : ConnectAuth(s)
  \/ ChainSteps(n)

\* the same while perspectives are being deleted through the API
NextT(n, P, H, T) ==
  \/ SocketSteps(n, P, H, T)
  \/ \E t \in Topics : DeleteTopic(t)

\* the same with every handshake naming a perspective
NextN(n, P, H) == NextT(n, P, H, Topics)

Next == NextN(MaxSockets, Procs, Handshakes)

Spec == Init /\ [][Next]_vars

\* a deployment with a single server process
NextLocal == NextN(MaxSockets, {"web1"}, Handshakes)

SpecLocal == Init /\ [][NextLocal]_vars

\* a single process over a store whose commands can fail while disconnect
\* handlers use it
NextFaulty ==
  \/ NextLocal
  \/ \E s \in Sockets : DiscStoreError(s)

SpecFaulty == Init /\ [][NextFaulty]_vars

\* a single process with enableRealtimeActivityLogs on
InitLogs ==
  /\ requireAccessToken = TRUE
  /\ persp = Topics
  /\ redis = [t \in Keys |-> Nil]
  /\ stored = redis
  /\ setup = [p \in Procs |-> SetupDone]
  /\ InitSockets
  /\ HelpersOff
  /\ logEnabled = TRUE

NextLogs ==
  \/ NextLocal
  \/ \E s \in Sockets : LogGet(s)
  \/ \E s \in Sockets : LogDel(s)
  \/ \E s \in Sockets : LogStoreError(s)

SpecLogs == InitLogs /\ [][NextLogs]_vars

\* a single process whose clients may leave the query parameter p out
NextNoTopic == NextT(MaxSockets, {"web1"}, Handshakes, Keys)

SpecNoTopic == Init /\ [][NextNoTopic]_vars

\* a single process whose clients all present a cookie, with every kind of
\* reply of the session store
NextSession == NextN(MaxSockets, {"web1"}, SessionHandshakes)

SpecSession == Init /\ [][NextSession]_vars

\* ---- a process restarted over a counter store that outlived it ----
\* the counters it may find: none, and what crashes and the races of the
\* handlers leave behind
StoredValues == {Nil, Val(0 - 1), Val(0), Val(1), Val(2)}

\* the counter of two subscribers that were attached to the process
LiveValues == {Val(2)}

\* web1 starts over counters of V, with any of the perspectives deleted
\* meanwhile and the requireAccessToken toggle off; setupNamespace has been
\* called
InitStored(V) ==
  /\ requireAccessToken = FALSE
  /\ persp \in SUBSET Topics
  /\ redis \in {[k \in Keys |-> IF k = NoTopic THEN Nil ELSE v] : v \in V}
  /\ stored = redis
  /\ setup = [p \in Procs |-> IF p = "web1" THEN SetupStart ELSE SetupDone]
  /\ InitSockets
  /\ logEnabled = FALSE
  /\ HelpersOff

InitRecon == InitStored(StoredValues)

\* init installs the connection handler and then calls setupNamespace: the
\* sockets' steps run while setupNamespace is at work
NextRecon ==
  \/ \E s \in Sockets, t \in Topics : Connect(s, "web1", t, "ok")
  \/ ChainSteps(MaxSockets)
  \/ SetupKeys("web1")
  \/ \E k \in Keys : SetupGet("web1", k)
  \/ \E k \in Keys : SetupFind("web1", k)

SpecRecon == InitRecon /\ [][NextRecon]_vars

\* the restart of a process that went down with subscribers attached
InitWarm == InitStored(LiveValues)

SpecWarm == InitWarm /\ [][NextRecon]_vars

\* the same deployment started with the requireAccessToken toggle off
InitAnon ==
  /\ requireAccessToken = FALSE
  /\ persp = Topics
  /\ redis = [t \in Keys |-> Nil]
  /\ stored = redis
  /\ setup = [p \in Procs |-> SetupDone]
  /\ InitSockets
  /\ logEnabled = FALSE
  /\ HelpersOff

\* redisStore.get is not called with the toggle off, so its callback is not
\* among the steps; no perspective is deleted while it runs
NextAnon ==
  \/ \E s \in Sockets, t \in Topics, h \in AnonHandshakes : Connect(s, "web1", t, h)
  \/ ChainSteps(MaxSockets)

SpecAnon == InitAnon /\ [][NextAnon]_vars

\* ---- no socket ever arrives: the state the other modules run beside ----
ServerIdle ==
  /\ requireAccessToken = TRUE
  /\ persp = Topics
  /\ redis = [t \in Keys |-> Nil]
  /\ stored = redis
  /\ setup = [p \in Procs |-> SetupDone]
  /\ nsps = [p \in Procs |-> {}]
  /\ proc = [s \in Sockets |-> "web1"]
  /\ topic = [s \in Sockets |-> "ops"]
  /\ hs = [s \in Sockets |-> "ok"]
  /\ connected = [s \in Sockets |-> FALSE]
  /\ cpc = [s \in Sockets |-> "idle"]
  /\ dpc = [s \in Sockets |-> "none"]
  /\ created = [s \in Sockets |-> FALSE]
  /\ incrRet = [s \in Sockets |-> Nil]
  /\ numOfClients = [s \in Sockets |-> "unread"]
  /\ early = [s \in Sockets |-> FALSE]
  /\ absentAt = [s \in Sockets |-> FALSE]
  /\ sessionRead = [s \in Sockets |-> FALSE]
  /\ user = [s \in Sockets |-> Unresolved]
  /\ logEnabled = FALSE
  /\ logrec = [s \in Sockets |-> "none"]
  /\ lpc = [s \in Sockets |-> "none"]
serverVars == <<requireAccessToken, persp, redis, nsps, proc, topic, hs, connected,
                cpc, numOfClients, dpc, created, incrRet, early, absentAt,
                sessionRead, user, setup, stored, logEnabled, logrec, lpc>>

\* ---- the key of a perspective: strings as sequences of characters ----
\* the characters a name is made of; ':' is the one key.split(':') cuts at
NameChars == {"o", "p", ":"}
\* every string of at most n characters
RECURSIVE Strings(_)
Strings(n) ==
  IF n = 0 THEN {<<>>}
  ELSE Strings(n - 1) \cup
       {Append(w, c) : w \in {v \in Strings(n - 1) : Len(v) = n - 1}, c \in NameChars}
Names == Strings(MaxNameLen)

\* const activePerspPrefix = 'activePersp:'
activePerspPrefix == <<"a", "c", "t", "i", "v", "e", "P", "e", "r", "s", "p", ":">>
\* `${activePerspPrefix}${perspName}`
perspKeyOf(N) == activePerspPrefix \o N

\* str.split(sep): the pieces of str between the occurrences of sep
RECURSIVE split(_, _)
split(str, sep) ==
  IF \A i \in 1..Len(str) : str[i] # sep THEN <<str>>
  ELSE LET i == CHOOSE j \in 1..Len(str) :
                  str[j] = sep /\ \A k \in 1..(j - 1) : str[k] # sep
       IN <<SubSeq(str, 1, i - 1)>> \o split(SubSeq(str, i + 1, Len(str)), sep)

\* keySplitArr = key.split(':'); perspName = keySplitArr[1] when there is
\* more than one piece (<<"?">>: no lookup is made)
perspNameOf(key) ==
  LET keySplitArr == split(key, ":")
  IN IF Len(keySplitArr) > 1 THEN keySplitArr[2] ELSE <<"?">>

\* a client asks for the perspective called name
InitKeys ==
  /\ ServerIdle
  /\ keyRt \in {[KeyRtOff EXCEPT !.pc = "connect", !.name = N] : N \in Names}
  /\ cleanup = CleanupOff /\ range = RangeOff /\ asp = AspOff

\* the connect chain has built perspKey and incremented it
KeyWrite ==
  /\ keyRt.pc = "connect"
  /\ keyRt' = [keyRt EXCEPT !.pc = "stored", !.key = perspKeyOf(keyRt.name)]
  /\ UNCHANGED <<serverVars, cleanup, range, asp>>

\* setupNamespace of a later start has listed the key and taken the name
\* out of it for perspective.findOne
KeyRead ==
  /\ keyRt.pc = "stored"
  /\ keyRt' = [keyRt EXCEPT !.pc = "read", !.perspName = perspNameOf(keyRt.key)]
  /\ UNCHANGED <<serverVars, cleanup, range, asp>>

NextKeys == KeyWrite \/ KeyRead

SpecKeys == InitKeys /\ [][NextKeys]_vars

\* ---- jobCleanup.execute(batchSize, delay) ----
\* Date.now() of the run, the updated_at a completed job may carry and the
\* delays execute is called with (zero and negative: remove everything)
Now == 2
UpdatedAts == 0..Now
Delays == (0 - 1)..(Now + 1)

\* every list of at most n completed jobs, a job being its updated_at
RECURSIVE JobLists(_)
JobLists(n) ==
  IF n = 0 THEN {<<>>}
  ELSE JobLists(n - 1) \cup
       {Append(q, u) : q \in {r \in JobLists(n - 1) : Len(r) = n - 1}, u \in UpdatedAts}

\* the list q without the positions of I
RECURSIVE Without(_, _)
Without(q, I) ==
  IF q = <<>> THEN <<>>
  ELSE LET front == Without(SubSeq(q, 1, Len(q) - 1), I)
       IN IF Len(q) \in I THEN front ELSE Append(front, q[Len(q)])

\* the window starts behind every job fetched so far
From_paged(c) == c.skippedJobCount + c.removedJobCount
\* const from = skippedJobCount
From(c) == c.skippedJobCount
\* const to = skippedJobCount + n - 1
To(c) == c.skippedJobCount + c.n - 1
\* kue.Job.rangeByState('complete', from, to, 'asc'): the positions (counted
\* from 1) of the jobs of the window that exist
Window(c) == {i \in 1..Len(c.queue) : From(c) + 1 <= i /\ i <= To(c) + 1}
\* delay > 0 && now - job.updated_at < delay
Skipped(c, u) == c.delay > 0 /\ Now - u < c.delay
\* the recursion goes on until a batch comes back empty
Stops_empty(len, n) == len = 0
\* if (results.length < n) return Promise.resolve()
Stops(len, n) == len < n

\* execute has been called: the counters are 0 and deleteNextNJobs is about
\* to run for the first time
InitCleanup ==
  /\ ServerIdle
  /\ keyRt = KeyRtOff /\ range = RangeOff /\ asp = AspOff
  /\ cleanup \in {[pc |-> "batch", queue |-> q, orig |-> q, n |-> b, delay |-> d,
                    removedJobCount |-> 0, skippedJobCount |-> 0, errorJobCount |-> 0,
                    iterations |-> 0, fetched |-> 0] :
                     q \in JobLists(MaxJobs), b \in 0..MaxBatch, d \in Delays}

\* one call of deleteNextNJobs in which every command succeeds: the window
\* is fetched, its jobs are removed or skipped, the counters are updated and
\* the recursion goes on or stops
DeleteNextNJobs ==
  /\ cleanup.pc = "batch"
  /\ IF cleanup.n = 0
     THEN cleanup' = [cleanup EXCEPT !.pc = "resolved", !.iterations = @ + 1]
     ELSE LET jobs == Window(cleanup)
              skip == {i \in jobs : Skipped(cleanup, cleanup.queue[i])}
              skippedCount == Cardinality(skip)
              len == Cardinality(jobs)
          IN cleanup' = [cleanup EXCEPT
                           !.iterations = @ + 1,
                           !.queue = Without(@, jobs \ skip),
                           !.skippedJobCount = @ + skippedCount,
                           !.removedJobCount = @ + (len - skippedCount),
                           !.fetched = len,
                           !.pc = IF Stops(len, cleanup.n) THEN "resolved" ELSE "batch"]
  /\ UNCHANGED <<serverVars, keyRt, range, asp>>

\* rangeByStateAsync rejects: the error is printed and execute rejects
RangeRejects ==
  /\ cleanup.pc = "batch" /\ cleanup.n # 0
  /\ cleanup' = [cleanup EXCEPT !.pc = "rejected", !.iterations = @ + 1]
  /\ UNCHANGED <<serverVars, keyRt, range, asp>>

\* removeAsync rejects for the jobs of bad while the other removals of the
\* batch go through: the errors are counted, the other counters are not
\* updated and execute rejects
RemoveRejects ==
  /\ cleanup.pc = "batch" /\ cleanup.n # 0
  /\ LET jobs == Window(cleanup)
         old == {i \in jobs : ~Skipped(cleanup, cleanup.queue[i])}
     IN \E bad \in SUBSET old \ {{}} :
          cleanup' = [cleanup EXCEPT
                        !.iterations = @ + 1,
                        !.queue = Without(@, old \ bad),
                        !.errorJobCount = @ + Cardinality(bad),
                        !.fetched = Cardinality(jobs),
                        !.pc = "rejected"]
  /\ UNCHANGED <<serverVars, keyRt, range, asp>>

NextCleanup == DeleteNextNJobs \/ RangeRejects \/ RemoveRejects

SpecCleanup == InitCleanup /\ [][NextCleanup]_vars

\* every pending callback of the promise chain is run in the end
SpecCleanupFair == SpecCleanup /\ WF_vars(NextCleanup)

\* ---- aspectUtils.validateStatusRange(arr) ----
\* JavaScript values by what the checks look at: typeof, Array.isArray,
\* truthiness, length, the elements and, for a number, its value or NaN
Num(n) == [kind |-> "number", num |-> n, nan |-> FALSE, elems |-> <<>>]
NaN == [kind |-> "number", num |-> 0, nan |-> TRUE, elems |-> <<>>]
Str(len) == [kind |-> "string", num |-> len, nan |-> FALSE, elems |-> <<>>]
Null == [kind |-> "null", num |-> 0, nan |-> FALSE, elems |-> <<>>]
Undefined == [kind |-> "undefined", num |-> 0, nan |-> FALSE, elems |-> <<>>]
Obj == [kind |-> "object", num |-> 0, nan |-> FALSE, elems |-> <<>>]
\* an array is given by the kinds of its elements
Arr(es) == [kind |-> "array", num |-> 0, nan |-> FALSE, elems |-> es]

\* what an element of a range can be: numbers, NaN, a numeric string, null,
\* an object and a nested array (seen only through Array.isArray)
Elements ==
  {[kind |-> "number", num |-> n, nan |-> FALSE] : n \in 0..2} \cup
  {[kind |-> "number", num |-> 0, nan |-> TRUE],
   [kind |-> "string", num |-> 1, nan |-> FALSE],
   [kind |-> "null", num |-> 0, nan |-> FALSE],
   [kind |-> "array", num |-> 0, nan |-> FALSE]}
UndefinedElem == [kind |-> "undefined", num |-> 0, nan |-> FALSE]

RECURSIVE ElemLists(_)
ElemLists(n) ==
  IF n = 0 THEN {<<>>}
  ELSE ElemLists(n - 1) \cup
       {Append(q, e) : q \in {r \in ElemLists(n - 1) : Len(r) = n - 1}, e \in Elements}

\* the values validateStatusRange is called with
RangeInputs ==
  {Arr(es) : es \in ElemLists(MaxRangeLen)} \cup
  {Null, Undefined, Obj, Num(0), Num(5), Str(0), Str(2)}

\* if (arr): null, undefined, 0, NaN and '' are falsy
Truthy(v) ==
  CASE v.kind \in {"null", "undefined"} -> FALSE
    [] v.kind = "number" -> ~v.nan /\ v.num # 0
    [] v.kind = "string" -> v.num # 0
    [] OTHER -> TRUE
\* arr.length !== 2: arrays and strings have a length, the length of
\* anything else is undefined
LengthIsNot2(v) ==
  CASE v.kind = "array" -> Len(v.elems) # 2
    [] v.kind = "string" -> v.num # 2
    [] OTHER -> TRUE
\* reading arr[i] throws TypeError on null and undefined
CanIndex(v) == v.kind \notin {"null", "undefined"}
\* arr[i] with i counted from 0: an element, a character of a string, or
\* undefined
At(v, i) ==
  CASE v.kind = "array" /\ i + 1 <= Len(v.elems) -> v.elems[i + 1]
    [] v.kind = "string" /\ i + 1 <= v.num -> [kind |-> "string", num |-> 1, nan |-> FALSE]
    [] OTHER -> UndefinedElem
\* a > b on two numbers: false when either is NaN
Gt(a, b) == ~a.nan /\ ~b.nan /\ a.num > b.num

\* the four checks in the order validateStatusRange runs them: "ok" when it
\* returns, else the name of the error thrown
validateStatusRange(arr) ==
  IF Truthy(arr) /\ LengthIsNot2(arr) THEN "InvalidRangeSizeError"   \* arrayHasTwoElements
  ELSE IF ~CanIndex(arr) THEN "TypeError"                             \* arr[0] in noNestedArrays
  ELSE IF At(arr, 0).kind = "array" \/ At(arr, 1).kind = "array"
       THEN "InvalidRangeValuesError"                                 \* noNestedArrays
  ELSE IF At(arr, 0).kind # "number" \/ At(arr, 1).kind # "number"
       THEN "InvalidRangeValuesError"                                 \* valuesAreNumeric
  ELSE IF Gt(At(arr, 0), At(arr, 1)) THEN "InvalidRangeValuesError"   \* arrayValuesAscend
  ELSE "ok"

\* the validator is about to be called with arr
InitRange ==
  /\ ServerIdle
  /\ keyRt = KeyRtOff /\ cleanup = CleanupOff /\ asp = AspOff
  /\ range \in {[pc |-> "call", arr |-> a, result |-> "none"] : a \in RangeInputs}

\* validateStatusRange(arr) has returned or thrown
Validate ==
  /\ range.pc = "call"
  /\ range' = [range EXCEPT !.pc = "returned", !.result = validateStatusRange(range.arr)]
  /\ UNCHANGED <<serverVars, keyRt, cleanup, asp>>

NextRange == Validate

SpecRange == InitRange /\ [][NextRange]_vars

\* ---- aspectUtils.removeAspectRelatedSamples(aspect, seq) ----
\* what deleteSampleKeys resolves to: one entry per deleted sample hash, null
\* where the hash held nothing
SampleEntries == {"null", "sample"}
RECURSIVE SampleLists(_)
SampleLists(n) ==
  IF n = 0 THEN {<<>>}
  ELSE SampleLists(n - 1) \cup
       {Append(q, e) : q \in {r \in SampleLists(n - 1) : Len(r) = n - 1}, e \in SampleEntries}

AspectName == "temperature"
\* the deletions in the order the promise chain issues them
DeletionSteps == <<"deleteSampleKeys", "deleteAspectFromSubjectResourceMaps", "deleteKey">>
\* the steps of the chain that can reject before anything is published
ChainPcs == {"deleteSampleKeys", "getAspSubjMapMembers", "deleteAspectFromSubjectResourceMaps", "deleteKey"}

\* if (sample): null entries are passed over
IsSample_any(e) == TRUE
IsSample(e) == e # "null"
\* if (seq && samples.length) samples.forEach(...): one publishSample call
\* per entry that is a sample, with sample.aspect = aspect set before it
Published(a) ==
  IF a.seq /\ Len(a.samples) # 0
  THEN LET kept == SelectSeq(a.samples, IsSample)
       IN [i \in 1..Len(kept) |-> [sample |-> kept[i], aspect |-> a.aspect, event |-> "del"]]
  ELSE <<>>

\* removeAspectRelatedSamples has been called: nothing deleted yet
InitAspect ==
  /\ ServerIdle
  /\ keyRt = KeyRtOff /\ cleanup = CleanupOff /\ range = RangeOff
  /\ asp \in {[pc |-> "deleteSampleKeys", aspect |-> AspectName, seq |-> q,
               found |-> f, samples |-> <<>>, done |-> <<>>, events |-> <<>>,
               failed |-> "none"] : q \in BOOLEAN, f \in SampleLists(MaxSamples)}

\* deleteSampleKeys resolves with the deleted samples
DeleteSampleKeys ==
  /\ asp.pc = "deleteSampleKeys"
  /\ asp' = [asp EXCEPT !.pc = "getAspSubjMapMembers", !.samples = asp.found,
                         !.done = Append(asp.done, "deleteSampleKeys")]
  /\ UNCHANGED <<serverVars, keyRt, cleanup, range>>

\* the members of the aspect-to-subject map have been read
GetAspSubjMapMembers ==
  /\ asp.pc = "getAspSubjMapMembers"
  /\ asp' = [asp EXCEPT !.pc = "deleteAspectFromSubjectResourceMaps"]
  /\ UNCHANGED <<serverVars, keyRt, cleanup, range>>

\* the batch removing the aspect from the subject resource maps has run
DeleteAspectFromSubjectResourceMaps ==
  /\ asp.pc = "deleteAspectFromSubjectResourceMaps"
  /\ asp' = [asp EXCEPT !.pc = "deleteKey",
                         !.done = Append(asp.done, "deleteAspectFromSubjectResourceMaps")]
  /\ UNCHANGED <<serverVars, keyRt, cleanup, range>>

\* the aspect-to-subject map key has been deleted
DeleteKey ==
  /\ asp.pc = "deleteKey"
  /\ asp' = [asp EXCEPT !.pc = "publish", !.done = Append(asp.done, "deleteKey")]
  /\ UNCHANGED <<serverVars, keyRt, cleanup, range>>

\* the last then: publishSample is called for each sample and the calls are
\* collected in Promise.all
PublishSamples ==
  /\ asp.pc = "publish"
  /\ asp' = [asp EXCEPT !.pc = "published", !.events = Published(asp)]
  /\ UNCHANGED <<serverVars, keyRt, cleanup, range>>

\* Promise.all resolves
AspectResolves ==
  /\ asp.pc = "published"
  /\ asp' = [asp EXCEPT !.pc = "resolved"]
  /\ UNCHANGED <<serverVars, keyRt, cleanup, range>>

\* one of the redis steps rejects: no later then runs
ChainRejects ==
  /\ asp.pc \in ChainPcs
  /\ asp' = [asp EXCEPT !.pc = "rejected", !.failed = asp.pc]
  /\ UNCHANGED <<serverVars, keyRt, cleanup, range>>

\* one of the publishSample promises rejects
PublishRejects ==
  /\ asp.pc = "published"
  /\ asp.events # <<>>
  /\ asp' = [asp EXCEPT !.pc = "rejected", !.failed = "publishSample"]
  /\ UNCHANGED <<serverVars, keyRt, cleanup, range>>

NextAspect ==
  \/ DeleteSampleKeys
  \/ GetAspSubjMapMembers
  \/ DeleteAspectFromSubjectResourceMaps
  \/ DeleteKey
  \/ PublishSamples
  \/ AspectResolves
  \/ ChainRejects
  \/ PublishRejects

SpecAspect == InitAspect /\ [][NextAspect]_vars

\* ---- observations used by the properties ----
Count(t) == IF redis[t].nil THEN 0 ELSE redis[t].val
Quiescent == \A s \in Sockets : ~InFlight(s)
\* the socket never got past the admission checks
Untouched(u) == cpc[u] \in {"idle", "rejected"}

\* every disconnect event came after the socket's INCR, none before the
\* handler was registered and none while the connect chain was running
OrderlyDisconnects ==
  \A s \in Sockets :
    ~early[s] /\ (Registered(s) /\ ~connected[s] => dpc[s] # "none")

\* C1: the stored counter of every topic is never negative (absent counts 0)
C1_NonNegative == \A t \in Topics : Count(t) >= 0

\* C2: whenever no handler is in flight, the counter of every topic equals the
\* number of sockets whose INCR was applied and whose disconnect has not been
\* handled (stated for the runs in which every socket disconnects after its
\* own connect has completed, so that the handlers that interleave belong to
\* different sockets)
C2_NoLostUpdate ==
  Quiescent /\ OrderlyDisconnects =>
    \A t \in Topics :
      Count(t) = Cardinality({s \in Sockets :
                    topic[s] = t /\ IncrApplied(s) /\ dpc[s] = "none"})

\* C3: a socket whose INCR was applied and that has not disconnected has a
\* namespace for its topic in its own process
C3_AttachedHasNamespace ==
  \A s \in Sockets :
    IncrApplied(s) /\ connected[s] => topic[s] \in nsps[proc[s]]

\* every socket of the run has arrived, is disconnected and has no handler left
Finished ==
  \A s \in 1..MaxSockets :
    cpc[s] \notin {"idle"} \cup CActive /\ ~connected[s] /\ dpc[s] \notin DActive

\* C4: once every socket has disconnected and every handler has completed, so
\* that nothing is left to run, no process holds a namespace for a topic that
\* is still in the database and whose counter is 0 or absent (the end state of
\* "eventually every process retires its namespace"; stated for the runs in
\* which every socket disconnects after its own connect has completed)
C4_EventuallyRetired ==
  Finished /\ OrderlyDisconnects =>
    \A t \in persp : Count(t) = 0 => \A p \in Procs : t \notin nsps[p]

\* s1 and s2 are the only sockets that got past admission, they connected to
\* the same topic in the same process, both INCRs were applied and no
\* disconnect handler has started
TwoConnects(s1, s2) ==
  /\ s1 # s2 /\ proc[s1] = proc[s2] /\ topic[s1] = topic[s2]
  /\ IncrApplied(s1) /\ IncrApplied(s2)
  /\ dpc[s1] = "none" /\ dpc[s2] = "none"
  /\ \A u \in Sockets \ {s1, s2} : ~Registered(u)

\* C5 as claimed: two connects of one process to one topic, starting from an
\* absent counter, get 1 and 2 from their INCRs and perform the creation
\* (findOne + initializeNamespace) once; a pair handled one after the other
\* satisfies this, so a violation is a concurrent pair
C5_CreatedOnce ==
  \A s1, s2 \in Sockets :
    TwoConnects(s1, s2) =>
      /\ {incrRet[s1], incrRet[s2]} = {Val(1), Val(2)}
      /\ Cardinality({s \in {s1, s2} : created[s]}) = 1

\* C5 amended: the INCRs of the two connects return 1 and 2, the process holds
\* the namespace of the topic, and the creation was performed by the connect
\* whose INCR returned 1 (the other one performs it again when it also read
\* the counter as absent)
C5_OneNamespace ==
  \A s1, s2 \in Sockets :
    TwoConnects(s1, s2) =>
      /\ {incrRet[s1], incrRet[s2]} = {Val(1), Val(2)}
      /\ topic[s1] \in nsps[proc[s1]]
      /\ \A s \in {s1, s2} : incrRet[s] = Val(1) => created[s]
      /\ \A s \in {s1, s2} : created[s] <=> numOfClients[s] = "null"

\* both connects read the counter as absent and both created
C5_Witness ==
  \E s1, s2 \in Sockets :
    TwoConnects(s1, s2) /\ created[s1] /\ created[s2]

\* C6: a step of the disconnect handler of a socket that disconnected before
\* its INCR was applied changes neither the counter store nor the namespaces
C6_EarlyDisconnectNoMutation ==
  [][\A s \in Sockets :
       early[s] /\ dpc'[s] # dpc[s] => redis' = redis /\ nsps' = nsps]_vars

\* the handshake of s fails one of the admission checks
FailsAdmission(s) ==
  /\ cpc[s] # "idle"
  /\ \/ hs[s] \in {"noCookie", "noSid", "badIp"}
     \/ requireAccessToken /\ hs[s] = "badSession"

\* C7: a socket that fails an admission check never reads or writes the
\* counter, creates or retires no namespace, runs no disconnect handler, and
\* is disconnected when it is rejected
C7_RejectedNoEffect ==
  \A s \in Sockets :
    FailsAdmission(s) =>
      /\ cpc[s] \in {"auth", "rejected"}
      /\ cpc[s] = "rejected" => ~connected[s]
      /\ numOfClients[s] = "unread" /\ ~created[s] /\ ~IncrApplied(s)
      /\ dpc[s] = "none"

\* a socket was rejected by the session check and one by the whitelist, while
\* another socket holds a count
C7_Witness ==
  /\ \E s \in Sockets : hs[s] \in {"badSession", "badIp"} /\ cpc[s] = "rejected"
  /\ \E s \in Sockets : hs[s] \in {"noCookie", "noSid"} /\ cpc[s] = "rejected"

\* C8: a connect to a topic that is not in the database ends, once its connect
\* chain and the disconnect handling have completed, with the socket
\* disconnected and with its increment, if it was applied, taken back
C8_AbsentTopicRejected ==
  \A s \in Sockets :
    absentAt[s] /\ cpc[s] \in {"done", "notFound", "rejected"}
                /\ dpc[s] \notin DActive =>
      /\ ~connected[s]
      /\ IncrApplied(s) => dpc[s] # "none"

\* s is the only socket that ever got past admission, it disconnected after
\* its INCR (the counter was 1) and its disconnect handler has completed
LastDisconnect(s) ==
  /\ dpc[s] \in {"retired", "decremented", "failed"}
  /\ ~early[s]
  /\ \A u \in Sockets \ {s} : Untouched(u)

C10_IncrFirst ==
  \A s \in Sockets :
    created[s] \/ cpc[s] = "notFound" => IncrApplied(s)

\* C10 amended: the INCR of a socket comes last: while the topic is being
\* resolved and when it was not found no INCR has been applied, and an INCR
\* applied after the counter was read as absent follows the namespace creation
C10_EnsureFirst ==
  \A s \in Sockets :
    /\ cpc[s] \in {"find", "notFound"} => ~IncrApplied(s)
    /\ IncrApplied(s) /\ numOfClients[s] = "null" => created[s]
    /\ created[s] => numOfClients[s] = "null"

\* a socket created the namespace and then incremented
C10_Witness ==
  \E s \in Sockets : created[s] /\ IncrApplied(s) /\ incrRet[s] = Val(1)

\* C11: a socket whose handshake has no query parameter p and that passed
\* the admission checks is not disconnected by the server, and neither its
\* connect chain nor its disconnect handler creates a namespace or writes a
\* counter key
C11_NoTopicNoSubscription ==
  \A s \in Sockets :
    cpc[s] # "idle" /\ topic[s] = NoTopic /\ Registered(s) =>
      /\ cpc[s] # "notFound"
      /\ ~created[s]
      /\ incrRet[s].nil
      /\ dpc[s] \notin {"find", "retired", "decremented", "failed"}

\* C12: a handshake without a cookie header, or whose cookie does not match
\* connect.sid, is disconnected in the step in which it arrives: the session
\* store is not read for it, no disconnect handler is registered or run and
\* no counter key is read or written on its behalf
C12_BadCookieDisconnected ==
  \A s \in Sockets :
    cpc[s] # "idle" /\ hs[s] \in {"noCookie", "noSid"} =>
      /\ cpc[s] = "rejected" /\ ~connected[s]
      /\ ~sessionRead[s] /\ user[s] = Unresolved
      /\ ~Registered(s) /\ dpc[s] = "none"
      /\ numOfClients[s] = "unread" /\ incrRet[s].nil /\ ~created[s]

\* one socket was turned away for each reason while nobody was subscribed
C12_Witness ==
  \E s, u \in Sockets :
    /\ hs[s] = "noCookie" /\ cpc[s] = "rejected"
    /\ hs[u] = "noSid" /\ cpc[u] = "rejected"
    /\ \A t \in Topics : redis[t].nil

\* C17: with requireAccessToken on, a socket gets past getUserFromSession
\* only if the session store answered without error with a record holding
\* passport.user.name, and its user is that name; with no record, a record
\* without the nested name or an error of the store the socket ends
\* disconnected, without a disconnect handler and without having read or
\* written a counter key
C17_SessionRequired ==
  \A s \in Sockets :
    requireAccessToken /\ cpc[s] \notin {"idle", "auth"} /\ CookieOk(hs[s]) =>
      LET d == SessionData(hs[s])
          named == ~StoreErr(hs[s]) /\ d.depth = 3 /\ d.name # ""
      IN /\ sessionRead[s]
         /\ Registered(s) => named /\ user[s] = d.name
         /\ ~named =>
              /\ cpc[s] = "rejected" /\ ~connected[s] /\ user[s] = Unresolved
              /\ dpc[s] = "none" /\ numOfClients[s] = "unread"
              /\ incrRet[s].nil /\ ~created[s]

\* a socket whose session has a user without a name was turned away while
\* a socket of a named user is subscribed
C17_Witness ==
  \E s, u \in Sockets :
    /\ hs[s] = "noName" /\ cpc[s] = "rejected"
    /\ hs[u] = "ok" /\ IncrApplied(u) /\ user[u] = "alice"

\* C18: with requireAccessToken off, getUserFromSession resolves to the
\* empty user name for every socket that presents a session id, whatever the
\* session store holds for it, and the session store is never read
C18_AnonymousNoRead ==
  ~requireAccessToken =>
    /\ \A s \in Sockets : ~sessionRead[s] /\ cpc[s] # "auth"
    /\ \A s \in Sockets :
         cpc[s] # "idle" /\ CookieOk(hs[s]) => user[s] = "" /\ Registered(s)

\* a socket whose session id has no record in the store is subscribed
C18_Witness ==
  \E s \in Sockets :
    /\ ~requireAccessToken /\ hs[s] = "badSession"
    /\ IncrApplied(s) /\ connected[s] /\ user[s] = ""

\* ---- observations of setupNamespace ----
\* setupNamespace of process p has nothing left to do
SetupFinished(p) ==
  setup[p].pc \in {"resolved", "rejected"} /\ setup[p].gets = {} /\ setup[p].finds = {}
StoredCount(t) == IF stored[t].nil THEN 0 ELSE stored[t].val

\* C13: setupNamespace looks a perspective up, and creates its namespace,
\* only for a key whose value it read as a positive number; once it has
\* finished, every key read as positive whose perspective exists had its
\* namespace initialized
C13_OnlyPositiveRecreated ==
  \A p \in Procs, k \in Keys :
    /\ k \in setup[p].looked \cup setup[p].inited =>
         ~setup[p].read[k].nil /\ setup[p].read[k].val > 0
    /\ SetupFinished(p) /\ ~setup[p].read[k].nil /\ setup[p].read[k].val > 0
         /\ k \in persp => k \in setup[p].inited

\* C14: no step of setupNamespace changes a counter key, whether it
\* recreates the namespace or does not find the perspective
C14_SetupLeavesCounters ==
  [][setup' # setup => redis' = redis]_vars

\* setupNamespace has recreated the namespace of a stored counter before any
\* socket has arrived, and the counter is the stored one
C14_Witness ==
  /\ SetupFinished("web1") /\ "ops" \in setup["web1"].inited
  /\ "ops" \in nsps["web1"]
  /\ \A s \in Sockets : cpc[s] = "idle"
  /\ ~stored["ops"].nil /\ redis = stored

\* C15: a socket that connected alone, at whatever point of setupNamespace,
\* has raised the stored counter of its topic by exactly 1; a namespace its
\* chain created is there, and once setupNamespace has finished with the
\* key of a perspective that exists the process has the namespace
C15_ConnectDuringSetup ==
  \A s \in Sockets :
    /\ IncrApplied(s) /\ connected[s] /\ dpc[s] = "none"
    /\ \A u \in Sockets \ {s} : cpc[u] = "idle"
    => /\ Count(topic[s]) = StoredCount(topic[s]) + 1
       /\ created[s] => topic[s] \in nsps[proc[s]]
       /\ SetupFinished(proc[s]) /\ topic[s] \in setup[proc[s]].looked
            /\ topic[s] \in persp => topic[s] \in nsps[proc[s]]

\* a socket is subscribed while setupNamespace still waits for the value of
\* the socket's key
C15_Witness ==
  \E s \in Sockets :
    /\ IncrApplied(s) /\ connected[s]
    /\ setup[proc[s]].pc = "gets" /\ topic[s] \in setup[proc[s]].gets

\* C16: the promise of setupNamespace is resolved only when every lookup it
\* started has initialized its namespace, and it is rejected when one of the
\* perspectives was not found
C16_ResolvedAfterInit ==
  \A p \in Procs :
    /\ setup[p].pc = "resolved" =>
         setup[p].finds = {} /\ setup[p].looked \cap persp \subseteq setup[p].inited
    /\ setup[p].lost # {} => setup[p].pc = "rejected"

\* C19: when the only socket that ever connected has subscribed and left,
\* and nothing of its disconnect handler is left to run or to be retried,
\* its decrement has been applied: the counter of its topic is 0 or absent
\* and, the topic being in the database, its namespace is gone, also when
\* a command of the handler failed
C19_DecrementNotLost ==
  \A s \in Sockets :
    /\ IncrApplied(s) /\ ~early[s] /\ ~connected[s]
    /\ dpc[s] \notin DActive \cup {"none"}
    /\ \A u \in Sockets \ {s} : Untouched(u)
    => /\ Count(topic[s]) = 0
       /\ topic[s] \in persp => topic[s] \notin nsps[proc[s]]

C21_KeyRoundTrip ==
  /\ keyRt.pc \in {"stored", "read"} => keyRt.key = activePerspPrefix \o keyRt.name
  /\ keyRt.pc = "read" => keyRt.perspName = keyRt.name

\* C22: a record is stored only for a socket that passed every admission
\* check, and once such a socket is disconnected and nothing of its connect
\* chain, its disconnect handler or printRealtimeLogs is left to run, no
\* store command of printRealtimeLogs having failed, its record is gone
C22_LogRecordDiscarded ==
  \A s \in Sockets :
    /\ logrec[s] # "none" => Registered(s) /\ ~FailsAdmission(s)
    /\ logrec[s] # "none" /\ ~connected[s] /\ ~InFlight(s)
         /\ lpc[s] \notin {"get", "del", "storeError"}
       => logrec[s] = "deleted"

\* ---- observations of jobCleanup ----
\* the job is at least delay old at the time of the run
OldEnough(u) == Now - u >= cleanup.delay
OldJobs(q) == {i \in 1..Len(q) : OldEnough(q[i])}

\* C23: when execute(batchSize, delay) with batchSize >= 1 has resolved, the
\* queue holds, in their order, exactly the jobs of the start that are
\* younger than delay; and while it runs every job in front of the window
\* is one that is too young to remove
C23_OldRemovedYoungKept ==
  cleanup.n >= 1 =>
    /\ cleanup.pc = "resolved" =>
         cleanup.queue = Without(cleanup.orig, OldJobs(cleanup.orig))
    /\ cleanup.pc \in {"batch", "resolved"} =>
         /\ cleanup.skippedJobCount <= Len(cleanup.queue)
         /\ \A i \in 1..cleanup.skippedJobCount : ~OldEnough(cleanup.queue[i])

\* a run over old and young jobs has resolved after more than one batch, a
\* young job having been skipped before an old one was removed
C23_Witness ==
  /\ cleanup.pc = "resolved" /\ cleanup.n >= 1 /\ cleanup.iterations >= 3
  /\ cleanup.skippedJobCount >= 1 /\ cleanup.removedJobCount >= 2
  /\ ~OldEnough(cleanup.orig[1])

\* jobs counted so far
Counted(c) == c.removedJobCount + c.skippedJobCount

\* C24: execute comes to an end for every list, batchSize >= 0 and delay; a
\* call of deleteNextNJobs that succeeds ends the recursion exactly when
\* batchSize is 0 or fewer than batchSize jobs were fetched, and a full
\* batch strictly raises removedJobCount + skippedJobCount; when execute has
\* resolved the two counters add up to the number of jobs of the start, or
\* nothing was removed or counted when batchSize is 0
C24_Terminates ==
  /\ <>(cleanup.pc \in {"resolved", "rejected"})
  /\ [][cleanup.pc = "batch" /\ cleanup'.pc # "rejected" =>
          /\ cleanup'.pc = "resolved" <=>
               cleanup.n = 0 \/ cleanup'.fetched < cleanup.n
          /\ cleanup.n > 0 /\ cleanup'.fetched = cleanup.n =>
               Counted(cleanup') > Counted(cleanup)]_vars
  /\ [](cleanup.pc = "resolved" =>
          IF cleanup.n = 0
          THEN Counted(cleanup) = 0 /\ cleanup.queue = cleanup.orig
                 /\ cleanup.iterations = 1
          ELSE Counted(cleanup) = Len(cleanup.orig))

\* a run of full batches has resolved on an empty last batch
C24_Witness ==
  /\ cleanup.pc = "resolved" /\ cleanup.n = 1 /\ cleanup.fetched = 0
  /\ Len(cleanup.orig) = MaxJobs /\ cleanup.iterations = MaxJobs + 1
  /\ Counted(cleanup) = MaxJobs

\* a two-element array of numbers with arr[0] <= arr[1]
IsAscendingPair(v) ==
  /\ v.kind = "array" /\ Len(v.elems) = 2
  /\ v.elems[1].kind = "number" /\ v.elems[2].kind = "number"
  /\ ~v.elems[1].nan /\ ~v.elems[2].nan /\ v.elems[1].num <= v.elems[2].num

\* C25: validateStatusRange(arr) returns exactly for the two-element arrays
\* of numbers with arr[0] <= arr[1], and for every other value it throws
\* InvalidRangeSizeError or InvalidRangeValuesError and no other error
C25_ValidExactly ==
  range.pc = "returned" =>
    /\ range.result = "ok" <=> IsAscendingPair(range.arr)
    /\ range.result \in {"ok", "InvalidRangeSizeError", "InvalidRangeValuesError"}

\* the number of entries of q that are samples
RECURSIVE NonNull(_)
NonNull(q) ==
  IF q = <<>> THEN 0
  ELSE (IF Head(q) # "null" THEN 1 ELSE 0) + NonNull(Tail(q))

\* C26: removeAspectRelatedSamples publishes only once the sample keys, the
\* aspect's entries in the subject resource maps and the aspect-to-subject
\* map key have been deleted, in that order; it publishes one delete event
\* per non-null deleted sample, each carrying the deleted aspect, and nothing
\* when seq is absent or a deletion step fails
C26_PublishAfterDeletes ==
  /\ \E k \in 0..Len(DeletionSteps) : asp.done = SubSeq(DeletionSteps, 1, k)
  /\ asp.events # <<>> => asp.done = DeletionSteps
  /\ asp.pc \in {"published", "resolved"} =>
       /\ asp.done = DeletionSteps
       /\ Len(asp.events) = (IF asp.seq THEN NonNull(asp.found) ELSE 0)
       /\ \A i \in 1..Len(asp.events) :
            /\ asp.events[i].aspect = AspectName
            /\ asp.events[i].event = "del"
            /\ asp.events[i].sample # "null"
  /\ ~asp.seq => asp.events = <<>>
  /\ asp.failed \in ChainPcs => asp.events = <<>>

\* the call resolved with seq present after deleting a null entry and two
\* samples, and two events were published
C26_Witness ==
  /\ asp.pc = "resolved" /\ asp.seq
  /\ Len(asp.found) = 3 /\ NonNull(asp.found) = 2
  /\ Len(asp.events) = 2

====
